---- MODULE Spec2Model ----
(***************************************************************************)
(* MusicToolkit MCP server: the JSON-RPC dispatchers of api/index.py and   *)
(* api/mcp.py, their HTTP POST entry points, and the two tools of          *)
(* music_toolkit_server.py.                                                *)
(*                                                                         *)
(* A deployment runs exactly one of the three modules (variant).  One      *)
(* action is one whole call: it draws a request and the outcomes of the    *)
(* external collaborators (filesystem, clock, scoring API, generation API) *)
(* and leaves the request, the response and the log of the side effects    *)
(* of that call in the state.                                              *)
(*                                                                         *)
(* Three specifications share the state: Spec, one call at a time; SessionSpec, *)
(* requests served one after the other with a record of what was served;   *)
(* ScratchSpec, the steps of two tool calls that write into the output     *)
(* directory, interleaved.                                                 *)
(*                                                                         *)
(* JSON values are encoded as tokens: a JSON string is a TLA+ string, the  *)
(* JSON literals true/false are "true"/"false", a key that is absent from  *)
(* a mapping is Absent, the literal null is Null.  A request id is a       *)
(* tagged record so that integers, strings and null share one shape.       *)
(* Texts are sequences of tokens; the first token is what the text begins  *)
(* with.                                                                   *)
(*                                                                         *)
(* api/mcp.py uses BaseModel (line 157) without importing it; the model    *)
(* takes it to be pydantic's BaseModel, as music_toolkit_server.py line 14 *)
(* imports it.                                                             *)
(***************************************************************************)
EXTENDS Integers, Sequences, FiniteSets, TLC

VARIABLES variant, libs, entry, req, resp, raised, status, sent, log,
          session, now, outdir, caller

(* what outlives one call: the record of the calls served so far, and the  *)
(* clock, the output directory and the tool calls in progress              *)
session_vars == <<session>>
scratch_vars == <<now, outdir, caller>>

vars == <<variant, libs, entry, req, resp, raised, status, sent, log, session, now, outdir, caller>>

(* ---- bounds ---- *)
MaxId == 1
MaxArgKeys == 3
MaxClock == 1

(* ---- JSON tokens ---- *)
Absent == "<absent>"
Null == "<null>"
NonMap == "<non-mapping>"

IdAbsent == [t |-> "absent", n |-> 0]
IdNull == [t |-> "null", n |-> 0]
IdStr == [t |-> "str", n |-> 0]
IdInt(n) == [t |-> "int", n |-> n]

(* text markers: the emoji the code puts in front of its messages *)
CrossMark == "[X]"
CheckMark == "[OK]"
WarnMark == "[!]"
ScoreMark == "[score]"
FolderMark == "[folder]"
NoteMark == "[note]"

(* ---- error codes ---- *)
MethodNotFound == -32601
InvalidParams == -32602
InternalError == -32603

(* ---- the inputs ---- *)
ExistingPath == "/in/present.wav"
MissingPath == "/in/missing.wav"
PathVals == {"", MissingPath, ExistingPath}
PromptVals == {"", "jazz"}
BoolVals == {"true", "false"}

ArgKeys == {"wav_path", "wav_file_path", "humming_path", "humming_file_path",
            "style_prompt", "render_svg", "generate_score", "timestamp"}

ValsOf(k) ==
    CASE k \in {"wav_path", "wav_file_path", "humming_path", "humming_file_path"} -> PathVals
      [] k = "style_prompt" -> PromptVals
      [] k \in {"render_svg", "generate_score"} -> BoolVals
      [] OTHER -> {"20240101_000000"}

Present(a) == {k \in ArgKeys : a[k] # Absent}

NoArgs == [k \in ArgKeys |-> Absent]

Opt(k) == ValsOf(k) \cup {Absent}

(* the arguments mappings a client can send: any keys, at most MaxArgKeys of them *)
ArgMaps == {a \in [wav_path : Opt("wav_path"), wav_file_path : Opt("wav_file_path"),
                   humming_path : Opt("humming_path"),
                   humming_file_path : Opt("humming_file_path"),
                   style_prompt : Opt("style_prompt"), render_svg : Opt("render_svg"),
                   generate_score : Opt("generate_score"), timestamp : Opt("timestamp")] :
               Cardinality(Present(a)) <= MaxArgKeys}

KnownMethods == {"initialize", "tools/list", "tools/call", "resources/list", "prompts/list"}
MethodVals == KnownMethods \cup {Absent, Null, "ping"}

ToolNames == {"wav_to_music_score", "generate_music_from_humming"}
NameVals == ToolNames \cup {Absent, "nonexistent_tool"}

IdVals == {IdAbsent, IdNull, IdStr} \cup {IdInt(n) : n \in 0..MaxId}

(* A parsed JSON value handed to the dispatcher.  kind is the JSON type of  *)
(* the value; the other fields are the keys of a mapping.  params is       *)
(* Absent, Null, NonMap (a string or a list of scalars) or "object", and   *)
(* then name and args are its keys name and arguments; args is Absent,     *)
(* NonMap or "object" with the mapping in argmap.                          *)
Request(kind, id, method, params, name, args, argmap) ==
    [kind |-> kind, id |-> id, method |-> method, params |-> params,
     name |-> name, args |-> args, argmap |-> argmap]

NonObjectRequests ==
    {Request(k, IdAbsent, Absent, Absent, Absent, Absent, NoArgs) : k \in {"array", "string", "null"}}

PlainRequests ==
    {Request("object", i, m, p, Absent, Absent, NoArgs) :
        i \in IdVals, m \in MethodVals, p \in {Absent, Null, NonMap, "object"}}

CallRequests ==
    {Request("object", i, "tools/call", "object", n, a, NoArgs) :
        i \in IdVals, n \in NameVals, a \in {Absent, NonMap}}
    \cup
    {Request("object", i, "tools/call", "object", n, "object", am) :
        i \in IdVals, n \in ToolNames, am \in ArgMaps}
    \cup
    {Request("object", i, "tools/call", "object", n, "object", am) :
        i \in IdVals, n \in NameVals \ ToolNames, am \in {a \in ArgMaps : Cardinality(Present(a)) <= 1}}

Requests == NonObjectRequests \cup PlainRequests \cup CallRequests

(* ---- the external collaborators ---- *)
ScoreOutcomes == {"exception", "non200", "ok_svg", "ok_nosvg"}
GenOutcomes == {"exception", "non200", "ok_json", "ok_bytes"}
FsOutcomes == {"ok", "mkdir_fails", "write_fails", "second_write_fails"}

(* score, gen: what the scoring and the generation API answer; fs: what    *)
(* the scratch directory does; t1 <= t2: two readings of the clock         *)
(* bp: whether basic_pitch leaves a MIDI file                              *)
Envs == {e \in [score : ScoreOutcomes, gen : GenOutcomes, fs : FsOutcomes,
                 bp : {"ok", "fails"}, t1 : 0..MaxClock, t2 : 0..MaxClock] : e.t1 <= e.t2}

(* the environment in which every external step succeeds *)
BenignEnv == [score |-> "ok_svg", gen |-> "ok_json", fs |-> "ok", bp |-> "ok", t1 |-> 0, t2 |-> 0]

Exists(path) == path = ExistingPath

(* ---- the log of side effects of one call ---- *)
Event(ev, target, out, ts) == [ev |-> ev, target |-> target, out |-> out, ts |-> ts]
EvTool(name) == Event("tool", name, "", 0)
EvExists(path) == Event("exists", path, IF Exists(path) THEN "true" ELSE "false", 0)
EvMkdir(out) == Event("mkdir", "output", out, 0)
EvWrite(ext, out, ts) == Event("write", ext, out, ts)
EvPost(api, out) == Event("post", api, out, 0)

(* ---- Python semantics used by the handlers ---- *)
(* dict.get(key, default) *)
Get(a, k, default) == IF a[k] = Absent THEN default ELSE a[k]
(* a truth value that takes every JSON literal but the absent one for true *)
TruthyWhenPresent(v) == v \notin {"", Absent, Null}

(* truth value of a JSON value; None is the value of .get without default *)
Truthy(v) == v \notin {"", "false", Absent, Null}

(* ---- JSON-RPC envelopes ---- *)
(* a result envelope that also carries an error key set to null, as        *)
(* serialising the MCPResponse model (result and error both optional)      *)
(* would                                                                   *)
ResultWithNullError(id, result) ==
    [jsonrpc |-> "2.0", id |-> id, result |-> result, error |-> Null]

Result(id, result) == [jsonrpc |-> "2.0", id |-> id, result |-> result]

(* an error envelope with the literal id 0, as the HTTP handlers write it *)
ErrorWithIdZero(id, code, message) ==
    [jsonrpc |-> "2.0", id |-> IdInt(0), error |-> [code |-> code, message |-> message]]

Error(id, code, message) ==
    [jsonrpc |-> "2.0", id |-> id, error |-> [code |-> code, message |-> message]]
NoResponse == [none |-> TRUE]

TextContent(text) == [content |-> <<[type |-> "text", text |-> text]>>]

(* what a function call yields: a value or a raised exception, and its log *)
Returned(value, l) == [raised |-> FALSE, value |-> value, log |-> l]
Raised(l) == [raised |-> TRUE, value |-> NoResponse, log |-> l]

(***************************************************************************)
(* api/index.py                                                            *)
(***************************************************************************)
(* the placeholder document: its text depends on the title only *)
create_placeholder_musicxml(title) == <<"<score-partwise>", title>>

(* json.dumps(result, indent=2) of a mapping: an opening brace, the keys  *)
(* with their values, a closing brace                                      *)
JsonDumps(d) ==
    <<"{", "success", d.success>>
    \o (IF "generated_audio" \in d.keys THEN <<"generated_audio", d.generated_audio>> ELSE <<>>)
    \o (IF "musicxml" \in d.keys THEN <<"musicxml">> \o d.musicxml ELSE <<>>)
    \o <<"message">> \o d.message
    \o (IF "svg" \in d.keys THEN <<"svg", d.svg>> ELSE <<>>)
    \o <<"}">>

ToolDict(keys, message, musicxml, svg, audio) ==
    [success |-> "true", keys |-> keys, message |-> message, musicxml |-> musicxml,
     svg |-> svg, generated_audio |-> audio]

(* wav_to_music_score(wav_path, render_svg=True, timestamp=None) *)
Index_wav_to_music_score(a, e) ==
    LET musicxml == create_placeholder_musicxml("Audio Conversion")
        base == <<"Placeholder MusicXML generated">>
    IN  IF Truthy(Get(a, "render_svg", "true"))
        THEN LET msg == CASE e.score = "exception" -> base \o <<"(SVG error)">>
                          [] e.score = "non200" -> base \o <<"(SVG rendering failed)">>
                          [] OTHER -> base \o <<"with SVG rendering">>
                 svg == IF e.score = "ok_svg" THEN "<svg>" ELSE ""
             IN  Returned(ToolDict({"success", "musicxml", "message", "svg"}, msg, musicxml, svg, ""),
                          <<EvTool("wav_to_music_score"), EvPost("verovio", e.score)>>)
        ELSE Returned(ToolDict({"success", "musicxml", "message"}, base, musicxml, "", ""),
                      <<EvTool("wav_to_music_score")>>)

(* generate_music_from_humming(humming_path, generate_score=True, timestamp=None) *)
Index_generate_music_from_humming(a, e) ==
    LET ok == e.gen = "ok_json"
        msg0 == CASE ok -> <<"Music generated successfully using MusicGen">>
                  [] e.gen = "non200" ->
                       <<"Placeholder response (MusicGen API unavailable", "MusicGen API error", "status", ")">>
                  [] OTHER -> <<"Placeholder response (MusicGen API unavailable", "str(api_error)", ")">>
        audio == IF ok THEN "audio_url" ELSE ""
        l == <<EvTool("generate_music_from_humming"), EvPost("musicgen", e.gen)>>
    IN  IF Truthy(Get(a, "generate_score", "true"))
        THEN Returned(ToolDict({"success", "generated_audio", "message", "musicxml"},
                               msg0 \o <<"with MusicXML score">>,
                               create_placeholder_musicxml("Generated from Humming"), "", audio), l)
        ELSE Returned(ToolDict({"success", "generated_audio", "message"}, msg0, <<>>, "", audio), l)

(* keyword-argument call binds: every key is a parameter of f and every parameter *)
(* without default is given; otherwise Python raises TypeError             *)
Binds(a, parameters, required) ==
    /\ Present(a) \subseteq parameters
    /\ required \subseteq Present(a)

IndexInitializeResult ==
    [protocolVersion |-> "2024-11-05",
     capabilities |-> [tools |-> {}, resources |-> {}, prompts |-> {}],
     serverInfo |-> [name |-> "MusicToolkit MCP Server", version |-> "1.14.0"]]

ToolDescriptor(name, description, properties, required) ==
    [name |-> name, description |-> description,
     inputSchema |-> [type |-> "object", properties |-> properties, required |-> required]]

IndexTools ==
    << ToolDescriptor("wav_to_music_score", "Convert WAV audio files to MusicXML scores",
                      {"wav_path", "render_svg", "timestamp"}, <<"wav_path">>),
       ToolDescriptor("generate_music_from_humming", "Generate full music from humming audio",
                      {"humming_path", "generate_score", "timestamp"}, <<"humming_path">>) >>

(* the tools/call branch of handle_mcp_request, inside its try block *)
IndexToolsCall(r, request_id, e) ==
    IF r.params \in {Null, NonMap}
    THEN Returned(Error(request_id, InternalError, <<"Internal error">>), <<>>)
    ELSE LET a == r.argmap
             run == CASE r.name = "wav_to_music_score" ->
                            IF r.args # NonMap /\ Binds(a, {"wav_path", "render_svg", "timestamp"}, {"wav_path"})
                            THEN Index_wav_to_music_score(a, e) ELSE Raised(<<>>)
                      [] r.name = "generate_music_from_humming" ->
                            IF r.args # NonMap /\ Binds(a, {"humming_path", "generate_score", "timestamp"}, {"humming_path"})
                            THEN Index_generate_music_from_humming(a, e) ELSE Raised(<<>>)
                      [] OTHER -> Raised(<<>>)
         IN  IF run.raised
             THEN Returned(Error(request_id, InternalError, <<"Internal error">>), run.log)
             ELSE Returned(Result(request_id, TextContent(JsonDumps(run.value))), run.log)

(* handle_mcp_request(request_data) *)
Index_handle_mcp_request(r, e) ==
    IF r.kind # "object"
    THEN Raised(<<>>)
    ELSE LET method == r.method
             request_id == IF r.id = IdAbsent THEN IdInt(0) ELSE r.id
         IN  CASE method = "initialize" -> Returned(Result(request_id, IndexInitializeResult), <<>>)
               [] method = "tools/list" -> Returned(Result(request_id, [tools |-> IndexTools]), <<>>)
               [] method = "tools/call" -> IndexToolsCall(r, request_id, e)
               [] method = "resources/list" -> Returned(Result(request_id, [resources |-> <<>>]), <<>>)
               [] method = "prompts/list" -> Returned(Result(request_id, [prompts |-> <<>>]), <<>>)
               [] OTHER -> Returned(Error(request_id, MethodNotFound, <<"Method not found">>), <<>>)

(***************************************************************************)
(* api/mcp.py                                                              *)
(***************************************************************************)
(* the name generated_<timestamp>.<ext> in the scratch output directory *)
(* a name that also counts the files already in the directory *)
OutputPathNumbered(ts, ext) ==
    "output/generated_" \o ToString(ts) \o "_" \o ToString(Cardinality(DOMAIN outdir)) \o "." \o ext

OutputPath(ts, ext) == "output/generated_" \o ToString(ts) \o "." \o ext

(* a wav_to_musicxml that gives up because its library flags are False *)
Mcp_wav_to_musicxml_needs_library(ts, e, nth) == Raised(<<>>)

(* wav_to_musicxml(wav_path, timestamp): creates the directory, writes the *)
(* placeholder document, returns its path                                  *)
Mcp_wav_to_musicxml(ts, e, nth) ==
    IF e.fs = "mkdir_fails"
    THEN Raised(<<EvMkdir("raise")>>)
    ELSE IF e.fs = "write_fails" \/ (e.fs = "second_write_fails" /\ nth = 2)
         THEN Raised(<<EvMkdir("ok"), EvWrite("musicxml", "raise", ts)>>)
         ELSE Returned(OutputPath(ts, "musicxml"), <<EvMkdir("ok"), EvWrite("musicxml", "ok", ts)>>)

(* base64.b64encode(svg.encode("utf-8")).decode("utf-8") *)
Base64(svg) == "base64:" \o svg

(* the same function posting a second time when the first post raised *)
render_musicxml_with_retry(e) ==
    LET text == CASE e.score = "exception" -> <<CrossMark, "Verovio API call failed">>
                  [] e.score = "non200" -> <<CrossMark, "Verovio API error", "status", "body">>
                  [] e.score = "ok_nosvg" -> <<WarnMark, "Failed to parse SVG">>
                  [] OTHER -> <<"<div>", Base64("<svg>"), "</div>">>
    IN  Returned(text, IF e.score = "exception"
                       THEN <<EvPost("verovio", e.score), EvPost("verovio", e.score)>>
                       ELSE <<EvPost("verovio", e.score)>>)

(* render_musicxml_via_verovio_api(musicxml_path): never raises *)
render_musicxml_via_verovio_api(e) ==
    LET text == CASE e.score = "exception" -> <<CrossMark, "Verovio API call failed">>
                  [] e.score = "non200" -> <<CrossMark, "Verovio API error", "status", "body">>
                  [] e.score = "ok_nosvg" -> <<WarnMark, "Failed to parse SVG">>
                  [] OTHER -> <<"<div>", Base64("<svg>"), "</div>">>
    IN  Returned(text, <<EvPost("verovio", e.score)>>)

(* a marker test that never finds the marker *)
StartsWithNever(text, mark) == FALSE

StartsWith(text, mark) == Len(text) > 0 /\ Head(text) = mark

(* the same function writing the body before it looks at the status *)
generate_music_from_hum_write_first(e) ==
    IF e.fs = "mkdir_fails"
    THEN Raised(<<EvMkdir("raise")>>)
    ELSE LET post == <<EvMkdir("ok"), EvPost("musicgen", e.gen)>>
         IN  CASE e.gen = "exception" -> Returned(<<CrossMark, "Music generation failed">>, post)
               [] e.gen = "non200" ->
                    Returned(<<CrossMark, "API error", "status", "body">>,
                             post \o <<EvWrite("wav", "ok", e.t1)>>)
               [] OTHER ->
                    IF e.fs = "write_fails"
                    THEN Returned(<<CrossMark, "Music generation failed">>,
                                  post \o <<EvWrite("wav", "raise", e.t1)>>)
                    ELSE Returned(<<OutputPath(e.t1, "wav")>>,
                                  post \o <<EvWrite("wav", "ok", e.t1)>>)

(* the same function returning the path although the write has failed *)
generate_music_from_hum_unchecked_write(e) ==
    IF e.fs = "mkdir_fails"
    THEN Raised(<<EvMkdir("raise")>>)
    ELSE LET post == <<EvMkdir("ok"), EvPost("musicgen", e.gen)>>
         IN  CASE e.gen = "exception" -> Returned(<<CrossMark, "Music generation failed">>, post)
               [] e.gen = "non200" -> Returned(<<CrossMark, "API error", "status", "body">>, post)
               [] OTHER ->
                    IF e.fs = "write_fails"
                    THEN Returned(<<OutputPath(e.t1, "wav")>>,
                                  post \o <<EvWrite("wav", "raise", e.t1)>>)
                    ELSE Returned(<<OutputPath(e.t1, "wav")>>,
                                  post \o <<EvWrite("wav", "ok", e.t1)>>)

(* the same function returning its error strings without the failure marker *)
generate_music_from_hum_plain_error(e) ==
    IF e.fs = "mkdir_fails"
    THEN Raised(<<EvMkdir("raise")>>)
    ELSE LET post == <<EvMkdir("ok"), EvPost("musicgen", e.gen)>>
         IN  CASE e.gen = "exception" -> Returned(<<"Music generation failed">>, post)
               [] e.gen = "non200" -> Returned(<<"API error", "status", "body">>, post)
               [] OTHER ->
                    IF e.fs = "write_fails"
                    THEN Returned(<<"Music generation failed">>,
                                  post \o <<EvWrite("wav", "raise", e.t1)>>)
                    ELSE Returned(<<OutputPath(e.t1, "wav")>>,
                                  post \o <<EvWrite("wav", "ok", e.t1)>>)

(* generate_music_from_hum(melody_file, prompt): the directory is created  *)
(* outside the try block, the rest is inside it                            *)
generate_music_from_hum(e) ==
    IF e.fs = "mkdir_fails"
    THEN Raised(<<EvMkdir("raise")>>)
    ELSE LET post == <<EvMkdir("ok"), EvPost("musicgen", e.gen)>>
         IN  CASE e.gen = "exception" -> Returned(<<CrossMark, "Music generation failed">>, post)
               [] e.gen = "non200" -> Returned(<<CrossMark, "API error", "status", "body">>, post)
               [] OTHER ->
                    IF e.fs = "write_fails"
                    THEN Returned(<<CrossMark, "Music generation failed">>,
                                  post \o <<EvWrite("wav", "raise", e.t1)>>)
                    ELSE Returned(<<OutputPath(e.t1, "wav")>>,
                                  post \o <<EvWrite("wav", "ok", e.t1)>>)

(* the wav_to_music_score branch of tools/call, after the presence check *)
McpWavTool(wav_file_path, render_svg, e) ==
    IF ~Exists(wav_file_path)
    THEN Returned(<<CrossMark, "WAV file not found", wav_file_path>>,
                  <<EvTool("wav_to_music_score"), EvExists(wav_file_path)>>)
    ELSE LET xml == Mcp_wav_to_musicxml(e.t1, e, 1)
             l1 == <<EvTool("wav_to_music_score"), EvExists(wav_file_path)>> \o xml.log
             ok == <<CheckMark, "Successfully generated MusicXML score from WAV file",
                     FolderMark, "MusicXML file", xml.value>>
         IN  IF xml.raised
             THEN Returned(<<CrossMark, "Error converting WAV to music score">>, l1)
             ELSE IF Truthy(render_svg)
                  THEN LET svg == render_musicxml_via_verovio_api(e)
                       IN  IF StartsWith(svg.value, CrossMark) \/ StartsWith(svg.value, WarnMark)
                           THEN Returned(ok \o <<WarnMark, "SVG rendering failed">> \o svg.value,
                                         l1 \o svg.log)
                           ELSE Returned(ok \o <<ScoreMark, "Score rendered successfully as SVG">> \o svg.value,
                                         l1 \o svg.log)
                  ELSE Returned(ok, l1)

(* the generate_music_from_humming branch of tools/call, after the presence check *)
McpHummingTool(humming_file_path, style_prompt, generate_score, e) ==
    IF ~Exists(humming_file_path)
    THEN Returned(<<CrossMark, "Humming file not found", humming_file_path>>,
                  <<EvTool("generate_music_from_humming"), EvExists(humming_file_path)>>)
    ELSE LET gen == generate_music_from_hum(e)
             l1 == <<EvTool("generate_music_from_humming"), EvExists(humming_file_path)>> \o gen.log
         IN  IF gen.raised
             THEN Returned(<<CrossMark, "Error generating music from humming">>, l1)
             ELSE IF StartsWith(gen.value, CrossMark)
                  THEN Returned(gen.value, l1)
                  ELSE LET ok == <<CheckMark, "Successfully generated music from humming",
                                   FolderMark, "Generated music file", gen.value[1],
                                   NoteMark, "Style", style_prompt>>
                           xml == Mcp_wav_to_musicxml(e.t2, e, 2)
                           svg == render_musicxml_via_verovio_api(e)
                       IN  IF ~Truthy(generate_score)
                           THEN Returned(ok, l1)
                           ELSE IF xml.raised
                                THEN Returned(ok \o <<WarnMark, "Score generation error">>, l1 \o xml.log)
                                ELSE IF StartsWith(svg.value, CrossMark) \/ StartsWith(svg.value, WarnMark)
                                     THEN Returned(ok \o <<ScoreMark, "Music score generated", xml.value>>,
                                                   l1 \o xml.log \o svg.log)
                                     ELSE Returned(ok \o <<ScoreMark, "Music score generated", xml.value>>
                                                      \o <<ScoreMark, "Score rendered as SVG">> \o svg.value,
                                                   l1 \o xml.log \o svg.log)

McpInitializeResult ==
    [protocolVersion |-> "2024-11-05",
     capabilities |-> [experimental |-> {}, prompts |-> {"listChanged"},
                       resources |-> {"subscribe", "listChanged"}, tools |-> {"listChanged"}],
     serverInfo |-> [name |-> "MusicToolkit MCP Server", version |-> "1.14.0"]]

McpTools ==
    << ToolDescriptor("wav_to_music_score", "Convert a WAV audio file to a MusicXML score",
                      {"wav_file_path", "render_svg"}, <<"wav_file_path">>),
       ToolDescriptor("generate_music_from_humming", "Generate full music from a humming audio file",
                      {"humming_file_path", "style_prompt", "generate_score"},
                      <<"humming_file_path", "style_prompt">>) >>

McpResources ==
    << [uri |-> "musictoolkit://output", name |-> "Generated Files",
        description |-> "List of generated music files and scores"] >>

McpPromptsNameOnly ==
    << [name |-> "music_processing"] >>

McpPrompts ==
    << [name |-> "music_processing",
        description |-> "AI assistant for music processing and generation tasks"] >>

(* a request model whose params field has no default *)
MCPRequestValidParamsRequired(r) ==
    /\ r.id.t = "int"
    /\ r.method \notin {Absent, Null}
    /\ r.params = "object"

(* MCPRequest built from request_data: id is an int, method a str, params a mapping *)
(* that defaults to the empty one                                          *)
MCPRequestValid(r) ==
    /\ r.id.t = "int"
    /\ r.method \notin {Absent, Null}
    /\ r.params \in {Absent, "object"}

(* the tools/call branch of handle_mcp_request *)
McpToolsCall(r, e) ==
    LET a == r.argmap
        id == r.id
    IN  CASE r.name = "wav_to_music_score" ->
               IF r.args = NonMap
               THEN Returned(Error(id, InternalError, <<"Internal error">>), <<>>)
               ELSE IF ~Truthy(Get(a, "wav_file_path", Null))
                    THEN Returned(Error(id, InvalidParams, <<"Missing required parameter: wav_file_path">>), <<>>)
                    ELSE LET run == McpWavTool(a.wav_file_path, Get(a, "render_svg", "true"), e)
                         IN  Returned(Result(id, TextContent(run.value)), run.log)
          [] r.name = "generate_music_from_humming" ->
               IF r.args = NonMap
               THEN Returned(Error(id, InternalError, <<"Internal error">>), <<>>)
               ELSE IF ~Truthy(Get(a, "humming_file_path", Null)) \/ ~Truthy(Get(a, "style_prompt", Null))
                    THEN Returned(Error(id, InvalidParams,
                                        <<"Missing required parameters: humming_file_path and style_prompt">>), <<>>)
                    ELSE LET run == McpHummingTool(a.humming_file_path, a.style_prompt,
                                                   Get(a, "generate_score", "false"), e)
                         IN  Returned(Result(id, TextContent(run.value)), run.log)
          [] OTHER -> Returned(Error(id, MethodNotFound, <<"Unknown tool">>), <<>>)

(* a dispatcher that would keep a session: tools/call refused until an     *)
(* initialize has been served                                              *)
Mcp_handle_after_initialize(r, e) ==
    IF r.kind # "object"
    THEN Raised(<<>>)
    ELSE IF ~MCPRequestValid(r)
         THEN Returned(Error(IF r.id = IdAbsent THEN IdInt(0) ELSE r.id,
                             InternalError, <<"Internal error">>), <<>>)
         ELSE CASE r.method = "initialize" -> Returned(Result(r.id, McpInitializeResult), <<>>)
                [] r.method = "tools/list" -> Returned(Result(r.id, [tools |-> McpTools]), <<>>)
                [] r.method = "tools/call" ->
                     IF session.initialized
                     THEN McpToolsCall(r, e)
                     ELSE Returned(Error(r.id, InternalError, <<"Server not initialized">>), <<>>)
                [] r.method = "resources/list" -> Returned(Result(r.id, [resources |-> McpResources]), <<>>)
                [] r.method = "prompts/list" -> Returned(Result(r.id, [prompts |-> McpPrompts]), <<>>)
                [] OTHER -> Returned(Error(r.id, MethodNotFound, <<"Method not found">>), <<>>)

(* handle_mcp_request(request_data) *)
Mcp_handle_mcp_request(r, e) ==
    IF r.kind # "object"
    THEN Raised(<<>>)
    ELSE IF ~MCPRequestValid(r)
         THEN Returned(Error(IF r.id = IdAbsent THEN IdInt(0) ELSE r.id,
                             InternalError, <<"Internal error">>), <<>>)
         ELSE CASE r.method = "initialize" -> Returned(Result(r.id, McpInitializeResult), <<>>)
                [] r.method = "tools/list" -> Returned(Result(r.id, [tools |-> McpTools]), <<>>)
                [] r.method = "tools/call" -> McpToolsCall(r, e)
                [] r.method = "resources/list" -> Returned(Result(r.id, [resources |-> McpResources]), <<>>)
                [] r.method = "prompts/list" -> Returned(Result(r.id, [prompts |-> McpPrompts]), <<>>)
                [] OTHER -> Returned(Error(r.id, MethodNotFound, <<"Method not found">>), <<>>)

(***************************************************************************)
(* music_toolkit_server.py                                                 *)
(***************************************************************************)
(* wav_to_musicxml(wav_path, timestamp), called with music21 available:    *)
(* through basic_pitch and a MIDI file when basic_pitch is available,      *)
(* through the placeholder score otherwise                                 *)
Server_wav_to_musicxml(ts, e, nth, l) ==
    IF e.fs = "mkdir_fails"
    THEN Raised(<<EvMkdir("raise")>>)
    ELSE LET wfail == e.fs = "write_fails" \/ (e.fs = "second_write_fails" /\ nth = 2)
             pre == IF l.basic_pitch
                    THEN <<EvMkdir("ok"), Event("basic_pitch", "mid", e.bp, 0)>>
                    ELSE <<EvMkdir("ok")>>
         IN  IF l.basic_pitch /\ e.bp = "fails"
             THEN Raised(pre)
             ELSE IF wfail
                  THEN Raised(pre \o <<EvWrite("musicxml", "raise", ts)>>)
                  ELSE Returned(OutputPath(ts, "musicxml"), pre \o <<EvWrite("musicxml", "ok", ts)>>)

(* generate_score_from_audio(wav_file): never raises *)
generate_score_from_audio(ts, e, l) ==
    IF ~l.music21
    THEN Returned(<<CrossMark, "Score generation failed">>, <<>>)
    ELSE LET xml == Server_wav_to_musicxml(ts, e, 2, l)
         IN  IF xml.raised
             THEN Returned(<<CrossMark, "Score generation failed">>, xml.log)
             ELSE Returned(<<xml.value>>, xml.log)

(* the tool wav_to_music_score(wav_file_path, render_svg) *)
Server_wav_to_music_score(wav_file_path, render_svg, e, l) ==
    IF ~Exists(wav_file_path)
    THEN Returned(<<CrossMark, "WAV file not found", wav_file_path>>,
                  <<EvTool("wav_to_music_score"), EvExists(wav_file_path)>>)
    ELSE IF ~l.music21
         THEN Returned(<<CrossMark, "Missing required libraries">>,
                       <<EvTool("wav_to_music_score"), EvExists(wav_file_path)>>)
         ELSE LET xml == Server_wav_to_musicxml(e.t1, e, 1, l)
                  l1 == <<EvTool("wav_to_music_score"), EvExists(wav_file_path)>> \o xml.log
                  ok == <<CheckMark, "Successfully generated MusicXML score from WAV file",
                          FolderMark, "MusicXML file", xml.value>>
                  svg == render_musicxml_via_verovio_api(e)
              IN  IF xml.raised
                  THEN Returned(<<CrossMark, "Error converting WAV to music score">>, l1)
                  ELSE IF ~Truthy(render_svg)
                       THEN Returned(ok, l1)
                       ELSE IF StartsWith(svg.value, CrossMark) \/ StartsWith(svg.value, WarnMark)
                            THEN Returned(ok \o <<WarnMark, "SVG rendering failed">> \o svg.value,
                                          l1 \o svg.log)
                            ELSE Returned(ok \o <<ScoreMark, "Score rendered successfully as SVG">> \o svg.value,
                                          l1 \o svg.log)

(* the tool generate_music_from_humming(humming_file_path, style_prompt, generate_score) *)
Server_generate_music_from_humming(humming_file_path, style_prompt, generate_score, e, l) ==
    IF ~Exists(humming_file_path)
    THEN Returned(<<CrossMark, "Humming file not found", humming_file_path>>,
                  <<EvTool("generate_music_from_humming"), EvExists(humming_file_path)>>)
    ELSE LET gen == generate_music_from_hum(e)
             l1 == <<EvTool("generate_music_from_humming"), EvExists(humming_file_path)>> \o gen.log
         IN  IF gen.raised
             THEN Returned(<<CrossMark, "Error generating music from humming">>, l1)
             ELSE IF StartsWith(gen.value, CrossMark)
                  THEN Returned(gen.value, l1)
                  ELSE LET ok == <<CheckMark, "Successfully generated music from humming",
                                   FolderMark, "Generated music file", gen.value[1],
                                   NoteMark, "Style", style_prompt>>
                           score == generate_score_from_audio(e.t2, e, l)
                           svg == render_musicxml_via_verovio_api(e)
                       IN  IF ~Truthy(generate_score)
                           THEN Returned(ok, l1)
                           ELSE IF StartsWith(score.value, CrossMark)
                                THEN Returned(ok \o <<WarnMark, "Score generation failed">> \o score.value,
                                              l1 \o score.log)
                                ELSE IF StartsWith(svg.value, CrossMark) \/ StartsWith(svg.value, WarnMark)
                                     THEN Returned(ok \o <<ScoreMark, "Music score generated">> \o score.value,
                                                   l1 \o score.log \o svg.log)
                                     ELSE Returned(ok \o <<ScoreMark, "Music score generated">> \o score.value
                                                      \o <<ScoreMark, "Score rendered as SVG">> \o svg.value,
                                                   l1 \o score.log \o svg.log)

(***************************************************************************)
(* The HTTP POST entry points                                              *)
(***************************************************************************)
Unparseable == "<not json>"

(* one POST: the statuses sent, in order, and the body written.  Both      *)
(* handlers send 200 with the dispatcher's envelope after it has returned, *)
(* and 500 with an error envelope of id 0 when reading, parsing or         *)
(* dispatching raised                                                      *)
HttpPostStatusFirst(body, run) ==
    IF body = Unparseable
    THEN [status |-> 500, sent |-> <<500>>,
          body |-> Error(IdInt(0), InternalError, <<"Internal server error">>), log |-> <<>>]
    ELSE IF run.raised
         THEN [status |-> 500, sent |-> <<200, 500>>,
               body |-> Error(IdInt(0), InternalError, <<"Internal server error">>), log |-> run.log]
         ELSE [status |-> 200, sent |-> <<200>>, body |-> run.value, log |-> run.log]

HttpPost(body, run) ==
    IF body = Unparseable
    THEN [status |-> 500, sent |-> <<500>>,
          body |-> Error(IdInt(0), InternalError, <<"Internal server error">>), log |-> <<>>]
    ELSE IF run.raised
         THEN [status |-> 500, sent |-> <<500>>,
               body |-> Error(IdInt(0), InternalError, <<"Internal server error">>), log |-> run.log]
         ELSE [status |-> 200, sent |-> <<200>>, body |-> run.value, log |-> run.log]

(***************************************************************************)
(* The state machine                                                       *)
(***************************************************************************)
NoRequest == Request("none", IdAbsent, Absent, Absent, Absent, Absent, NoArgs)

SideEffects == {"mkdir", "write", "post", "basic_pitch"}
HasSideEffect(l) == \E i \in 1..Len(l) : l[i].ev \in SideEffects

(* the environments that can make a difference to a call.  benign is the   *)
(* call in BenignEnv, where every external step succeeds, so its log holds *)
(* every external step the call can reach; an outcome the call never asks  *)
(* for is left at its benign value                                         *)
Uses(l, ev, target) == \E i \in 1..Len(l) : l[i].ev = ev /\ l[i].target = target
Writes(l) == Cardinality({i \in 1..Len(l) : l[i].ev = "write"})

EnvsFor(benign) ==
    LET l == benign.log
    IN  {e \in [score : IF Uses(l, "post", "verovio") THEN ScoreOutcomes ELSE {BenignEnv.score},
                gen : IF Uses(l, "post", "musicgen") THEN GenOutcomes ELSE {BenignEnv.gen},
                fs : IF Uses(l, "mkdir", "output") THEN FsOutcomes ELSE {BenignEnv.fs},
                bp : IF Uses(l, "basic_pitch", "mid") THEN {"ok", "fails"} ELSE {BenignEnv.bp},
                t1 : IF Writes(l) >= 1 THEN 0..MaxClock ELSE {BenignEnv.t1},
                t2 : 0..MaxClock] :
            /\ e.t1 <= e.t2
            /\ Writes(l) < 2 => e.t2 = e.t1}

(* ---- what the process keeps between calls ---- *)
(* the dispatchers keep nothing; session is the record of what has been    *)
(* served, kept to compare a later response with an earlier one: whether   *)
(* an initialize was served, and the first result of each of the four      *)
(* methods without parameters                                              *)
StaticMethods == {"initialize", "tools/list", "resources/list", "prompts/list"}
NoSession == [initialized |-> FALSE, first |-> [m \in StaticMethods |-> <<>>]]

(* the output directory maps a path to the content last written to it;     *)
(* the content of a call's file is named after the call                    *)
Callers == {1, 2}
EmptyDir == [path \in {} |-> 0]
Idle == [pc |-> "idle", ts |-> 0, ext |-> "", path |-> "", midi |-> 0]

Init ==
    /\ variant \in {"index", "mcp", "server"}
    /\ libs \in [music21 : BOOLEAN, basic_pitch : BOOLEAN]
    /\ variant \in {"index", "mcp"} => libs = [music21 |-> FALSE, basic_pitch |-> FALSE]
    /\ entry = "none"
    /\ req = NoRequest
    /\ resp = NoResponse
    /\ raised = FALSE
    /\ status = 0
    /\ sent = <<>>
    /\ log = <<>>
    /\ session = NoSession
    /\ now = 0
    /\ outdir = EmptyDir
    /\ caller = [p \in Callers |-> Idle]

(* handle_mcp_request of api/index.py serves one request out of R *)
ServeIndex(R) ==
    /\ variant = "index"
    /\ entry = "none"
    /\ \E r \in R : \E e \in EnvsFor(Index_handle_mcp_request(r, BenignEnv)) :
          LET run == Index_handle_mcp_request(r, e)
          IN  /\ req' = r
              /\ resp' = run.value
              /\ raised' = run.raised
              /\ log' = run.log
    /\ entry' = "call"
    /\ status' = 0
    /\ sent' = <<>>
    /\ UNCHANGED <<variant, libs, scratch_vars>>

(* a direct call of handle_mcp_request of api/index.py *)
CallIndex == ServeIndex(Requests) /\ UNCHANGED session_vars

(* handler.do_POST of api/index.py *)
PostIndex ==
    /\ variant = "index"
    /\ entry = "none"
    /\ \/ LET http == HttpPost(Unparseable, Raised(<<>>))
          IN  /\ req' = NoRequest
              /\ resp' = http.body
              /\ status' = http.status
              /\ sent' = http.sent
              /\ log' = <<>>
       \/ \E r \in Requests : \E e \in EnvsFor(Index_handle_mcp_request(r, BenignEnv)) :
             LET http == HttpPost("json", Index_handle_mcp_request(r, e))
             IN  /\ req' = r
                 /\ resp' = http.body
                 /\ status' = http.status
                 /\ sent' = http.sent
                 /\ log' = http.log
    /\ raised' = FALSE
    /\ entry' = "post"
    /\ UNCHANGED <<variant, libs, session_vars, scratch_vars>>

(* handle_mcp_request of api/mcp.py serves one request out of R *)
ServeMcp(R) ==
    /\ variant = "mcp"
    /\ entry = "none"
    /\ \E r \in R : \E e \in EnvsFor(Mcp_handle_mcp_request(r, BenignEnv)) :
          LET run == Mcp_handle_mcp_request(r, e)
          IN  /\ req' = r
              /\ resp' = run.value
              /\ raised' = run.raised
              /\ log' = run.log
    /\ entry' = "call"
    /\ status' = 0
    /\ sent' = <<>>
    /\ UNCHANGED <<variant, libs, scratch_vars>>

(* a direct call of handle_mcp_request of api/mcp.py *)
CallMcp == ServeMcp(Requests) /\ UNCHANGED session_vars

(* handler(request) of api/mcp.py with the method POST *)
PostMcp ==
    /\ variant = "mcp"
    /\ entry = "none"
    /\ \/ LET http == HttpPost(Unparseable, Raised(<<>>))
          IN  /\ req' = NoRequest
              /\ resp' = http.body
              /\ status' = http.status
              /\ sent' = http.sent
              /\ log' = <<>>
       \/ \E r \in Requests : \E e \in EnvsFor(Mcp_handle_mcp_request(r, BenignEnv)) :
             LET http == HttpPost("json", Mcp_handle_mcp_request(r, e))
             IN  /\ req' = r
                 /\ resp' = http.body
                 /\ status' = http.status
                 /\ sent' = http.sent
                 /\ log' = http.log
    /\ raised' = FALSE
    /\ entry' = "post"
    /\ UNCHANGED <<variant, libs, session_vars, scratch_vars>>

(* the body of the answer to GET: the server descriptor (the same literal  *)
(* in do_GET of api/index.py and in handler of api/mcp.py)                  *)
ServerDescriptorOneTool ==
    [name |-> "MusicToolkit MCP Server", version |-> "1.14.0", protocolVersion |-> "2024-11-05",
     tools |-> <<"wav_to_music_score">>, status |-> "healthy"]

ServerDescriptor ==
    [name |-> "MusicToolkit MCP Server", version |-> "1.14.0", protocolVersion |-> "2024-11-05",
     tools |-> <<"wav_to_music_score", "generate_music_from_humming">>, status |-> "healthy"]

(* handler.do_GET of api/index.py and the GET branch of handler of api/mcp.py *)
GetDescriptor ==
    /\ variant \in {"index", "mcp"}
    /\ entry = "none"
    /\ entry' = "get"
    /\ req' = NoRequest
    /\ resp' = ServerDescriptor
    /\ status' = 200
    /\ sent' = <<200>>
    /\ raised' = FALSE
    /\ log' = <<>>
    /\ UNCHANGED <<variant, libs, session_vars, scratch_vars>>

(* the arguments of a tool of music_toolkit_server.py, as a request *)
ToolRequest(name, a) == Request("object", IdAbsent, "tools/call", "object", name, "object", a)

(* the tool wav_to_music_score of music_toolkit_server.py *)
ServerWav ==
    /\ variant = "server"
    /\ entry = "none"
    /\ \E path \in PathVals, render \in BoolVals :
         \E e \in EnvsFor(Server_wav_to_music_score(path, render, BenignEnv, libs)) :
          LET run == Server_wav_to_music_score(path, render, e, libs)
          IN  /\ req' = ToolRequest("wav_to_music_score",
                                    [NoArgs EXCEPT !.wav_file_path = path, !.render_svg = render])
              /\ resp' = [return |-> run.value]
              /\ raised' = run.raised
              /\ log' = run.log
    /\ entry' = "tool"
    /\ status' = 0
    /\ sent' = <<>>
    /\ UNCHANGED <<variant, libs, session_vars, scratch_vars>>

(* the tool generate_music_from_humming of music_toolkit_server.py *)
ServerHumming ==
    /\ variant = "server"
    /\ entry = "none"
    /\ \E path \in PathVals, prompt \in PromptVals, score \in BoolVals :
         \E e \in EnvsFor(Server_generate_music_from_humming(path, prompt, score, BenignEnv, libs)) :
          LET run == Server_generate_music_from_humming(path, prompt, score, e, libs)
          IN  /\ req' = ToolRequest("generate_music_from_humming",
                                    [NoArgs EXCEPT !.humming_file_path = path, !.style_prompt = prompt,
                                                   !.generate_score = score])
              /\ resp' = [return |-> run.value]
              /\ raised' = run.raised
              /\ log' = run.log
    /\ entry' = "tool"
    /\ status' = 0
    /\ sent' = <<>>
    /\ UNCHANGED <<variant, libs, session_vars, scratch_vars>>

(* the call has returned to its caller and the process waits for the next  *)
(* one: nothing of the finished call is kept (the modules hold no mutable  *)
(* state of their own)                                                     *)
Finish ==
    /\ entry # "none"
    /\ entry' = "none"
    /\ req' = NoRequest
    /\ resp' = NoResponse
    /\ raised' = FALSE
    /\ status' = 0
    /\ sent' = <<>>
    /\ log' = <<>>
    /\ UNCHANGED <<variant, libs, session_vars, scratch_vars>>

Next ==
    \/ Finish
    \/ GetDescriptor
    \/ CallIndex
    \/ PostIndex
    \/ CallMcp
    \/ PostMcp
    \/ ServerWav
    \/ ServerHumming

Spec == Init /\ [][Next]_vars

(***************************************************************************)
(* A session: requests served one after the other by one process           *)
(***************************************************************************)
SessionArgMaps ==
    {NoArgs} \cup {[NoArgs EXCEPT ![k] = path] : k \in {"wav_path", "wav_file_path"}, path \in PathVals}

SessionRequests ==
    NonObjectRequests
    \cup {Request("object", i, m, p, Absent, Absent, NoArgs) :
            i \in {IdAbsent} \cup {IdInt(n) : n \in 0..MaxId}, m \in MethodVals, p \in {Absent, "object"}}
    \cup {Request("object", IdInt(n), "tools/call", "object", name, "object", am) :
            n \in 0..MaxId, name \in ToolNames, am \in SessionArgMaps}

(* the session after request r has been answered with response v *)
Served(s, r, v) ==
    [initialized |-> s.initialized \/ (r.kind = "object" /\ r.method = "initialize" /\ "result" \in DOMAIN v),
     first |-> [m \in StaticMethods |->
                  IF s.first[m] = <<>> /\ r.kind = "object" /\ r.method = m /\ "result" \in DOMAIN v
                  THEN <<v.result>>
                  ELSE s.first[m]]]

SessionCallIndex == ServeIndex(SessionRequests) /\ session' = Served(session, req', resp')

SessionCallMcp == ServeMcp(SessionRequests) /\ session' = Served(session, req', resp')

SessionNext ==
    \/ Finish
    \/ SessionCallIndex
    \/ SessionCallMcp

SessionSpec == Init /\ [][SessionNext]_vars

(***************************************************************************)
(* The scratch output directory under several tool calls                   *)
(*                                                                         *)
(* A tool call that writes a file reads the clock, derives the name        *)
(* generated_<timestamp>.<ext> from it, writes the file and returns its    *)
(* path.  The calls of Callers take these steps in any interleaving, while *)
(* the clock advances by whole seconds.                                    *)
(***************************************************************************)
call_vars == <<entry, req, resp, raised, status, sent, log>>

(* the directory after content was written to path (open(path, "wb")) *)
WriteFile(dir, path, content) ==
    [f \in DOMAIN dir \cup {path} |-> IF f = path THEN content ELSE dir[f]]

(* the clock passes to the next second *)
Tick ==
    /\ now < MaxClock
    /\ now' = now + 1
    /\ UNCHANGED <<variant, libs, call_vars, session_vars, outdir, caller>>

(* datetime.now().strftime(...) and the path built from it *)
Stamp(p) ==
    /\ variant \in {"mcp", "server"}
    /\ caller[p].pc = "idle"
    /\ \E ext \in {"wav", "musicxml"} :
          caller' = [caller EXCEPT ![p] = [pc |-> "stamped", ts |-> now, ext |-> ext,
                                           path |-> OutputPath(now, ext), midi |-> 0]]
    /\ UNCHANGED <<variant, libs, call_vars, session_vars, now, outdir>>

(* the file is written: whatever was at the path is replaced *)
WriteOutput(p) ==
    /\ caller[p].pc = "stamped"
    /\ outdir' = WriteFile(outdir, caller[p].path, p)
    /\ caller' = [caller EXCEPT ![p].pc = "written"]
    /\ UNCHANGED <<variant, libs, call_vars, session_vars, now>>

(* the call fails before it writes (the generation API did not answer 200) *)
FailBeforeWrite(p) ==
    /\ caller[p].pc = "stamped"
    /\ caller[p].ext = "wav"
    /\ caller' = [caller EXCEPT ![p] = [pc |-> "returned", ts |-> caller[p].ts, ext |-> "wav", path |-> "", midi |-> 0]]
    /\ UNCHANGED <<variant, libs, call_vars, session_vars, now, outdir>>

(* the call returns the text that holds the path *)
ReturnPath(p) ==
    /\ caller[p].pc = "written"
    /\ caller' = [caller EXCEPT ![p].pc = "returned"]
    /\ UNCHANGED <<variant, libs, call_vars, session_vars, now, outdir>>

ScratchNext ==
    \/ Tick
    \/ \E p \in Callers : Stamp(p)
    \/ \E p \in Callers : WriteOutput(p)
    \/ \E p \in Callers : FailBeforeWrite(p)
    \/ \E p \in Callers : ReturnPath(p)

ScratchSpec == Init /\ [][ScratchNext]_vars

(***************************************************************************)
(* wav_to_musicxml of music_toolkit_server.py with basic_pitch, under      *)
(* several calls                                                           *)
(*                                                                         *)
(* A call removes the files *_basic_pitch.mid of the output directory,     *)
(* lets basic_pitch write the MIDI file of its own audio, lists *.mid,     *)
(* takes the first of the list and converts it.  The content of a MIDI     *)
(* file is named after the call whose audio it was made from; midi is the  *)
(* content a call has converted.                                           *)
(***************************************************************************)
MidiPath(p) == "output/in" \o ToString(p) \o "_basic_pitch.mid"
MidiFiles(dir) == DOMAIN dir \cap {MidiPath(q) : q \in Callers}

(* for f in output_dir.glob("*_basic_pitch.mid"): f.unlink() *)
MidiCleanup(p) ==
    /\ variant = "server" /\ libs.music21 /\ libs.basic_pitch
    /\ caller[p].pc = "idle"
    /\ outdir' = [f \in DOMAIN outdir \ MidiFiles(outdir) |-> outdir[f]]
    /\ caller' = [caller EXCEPT ![p].pc = "cleaned", ![p].ext = "mid"]
    /\ UNCHANGED <<variant, libs, call_vars, session_vars, now>>

(* predict_and_save leaves <stem>_basic_pitch.mid, or nothing *)
MidiPredict(p) ==
    /\ caller[p].pc = "cleaned"
    /\ \/ /\ outdir' = WriteFile(outdir, MidiPath(p), p)
          /\ caller' = [caller EXCEPT ![p].pc = "predicted"]
       \/ /\ outdir' = outdir
          /\ caller' = [caller EXCEPT ![p].pc = "nomidi"]
    /\ UNCHANGED <<variant, libs, call_vars, session_vars, now>>

(* midi_files = list(output_dir.glob("*.mid")); midi_files[0], in the      *)
(* order the directory lists them; FileNotFoundError when there is none    *)
MidiPick(p) ==
    /\ caller[p].pc \in {"predicted", "nomidi"}
    /\ IF MidiFiles(outdir) = {}
       THEN caller' = [caller EXCEPT ![p].pc = "failed"]
       ELSE \E f \in MidiFiles(outdir) : caller' = [caller EXCEPT ![p].pc = "picked", ![p].path = f]
    /\ UNCHANGED <<variant, libs, call_vars, session_vars, now, outdir>>

(* converter.parse(midi_path): raises when the file is gone *)
MidiConvert(p) ==
    /\ caller[p].pc = "picked"
    /\ IF caller[p].path \in DOMAIN outdir
       THEN caller' = [caller EXCEPT ![p].pc = "converted", ![p].midi = outdir[caller[p].path]]
       ELSE caller' = [caller EXCEPT ![p].pc = "failed"]
    /\ UNCHANGED <<variant, libs, call_vars, session_vars, now, outdir>>

(* the call returns; the directory keeps what it holds *)
MidiReturn(p) ==
    /\ caller[p].ext = "mid"
    /\ caller[p].pc \in {"converted", "failed"}
    /\ caller' = [caller EXCEPT ![p] = Idle]
    /\ UNCHANGED <<variant, libs, call_vars, session_vars, now, outdir>>

MidiNext ==
    \/ \E p \in Callers : MidiCleanup(p)
    \/ \E p \in Callers : MidiPredict(p)
    \/ \E p \in Callers : MidiPick(p)
    \/ \E p \in Callers : MidiConvert(p)
    \/ \E p \in Callers : MidiReturn(p)

MidiSpec == Init /\ [][MidiNext]_vars

(***************************************************************************)
(* Properties                                                              *)
(***************************************************************************)
Dispatched == entry = "call" /\ variant \in {"index", "mcp"}
IsResult(r) == "result" \in DOMAIN r /\ "error" \notin DOMAIN r
IsError(r, code) == "error" \in DOMAIN r /\ "result" \notin DOMAIN r /\ r.error.code = code
IsToolCall(name) ==
    /\ req.kind = "object"
    /\ req.method = "tools/call"
    /\ req.params = "object"
    /\ req.name = name
WellFormedRequest == req.kind = "object" /\ req.id.t = "int" /\ req.params \in {Absent, "object"}
ResultText == resp.result.content[1].text
Range(seq) == {seq[i] : i \in 1..Len(seq)}

(* C1: a request to handle_mcp_request (either module) that carries an     *)
(* integer id gets a response with that same id, whether the response is   *)
(* a result or an error -32601, -32602 or -32603.                          *)
C1_IdEchoed ==
    (Dispatched /\ req.kind = "object" /\ req.id.t = "int")
        => (~raised /\ "id" \in DOMAIN resp /\ resp.id = req.id)

(* C1 witness: a call with a non-zero integer id answered with -32602.     *)
C1_Witness ==
    /\ Dispatched
    /\ req.id.t = "int" /\ req.id.n # 0
    /\ IsError(resp, InvalidParams)
    /\ resp.id = req.id

(* C2: handle_mcp_request returns a response object for every parsed JSON  *)
(* value, a value that is not a mapping included; no exception escapes.    *)
C2_NeverRaises ==
    Dispatched => (~raised /\ "jsonrpc" \in DOMAIN resp)

(* C3: every response returned by handle_mcp_request and every JSON-RPC    *)
(* body written by the POST handlers has the version tag "2.0", an id and  *)
(* exactly one of the keys result and error.                               *)
C3_EnvelopeShape ==
    ((Dispatched /\ ~raised) \/ entry = "post")
        => /\ "jsonrpc" \in DOMAIN resp /\ resp.jsonrpc = "2.0"
           /\ "id" \in DOMAIN resp
           /\ ("result" \in DOMAIN resp) # ("error" \in DOMAIN resp)

(* C3 witness: a POST answered 200 with the result of a tool call.         *)
C3_Witness ==
    /\ entry = "post"
    /\ status = 200
    /\ IsToolCall("wav_to_music_score")
    /\ IsResult(resp)
    /\ log # <<>>

(* C4: a request without a method field gets the error -32601 with the     *)
(* request's id, or 0 when it has none, from either dispatcher.            *)
C4_MissingMethod ==
    (Dispatched /\ req.kind = "object" /\ req.method = Absent)
        => /\ ~raised
           /\ IsError(resp, MethodNotFound)
           /\ resp.id = (IF req.id = IdAbsent THEN IdInt(0) ELSE req.id)

(* C5: a request whose method is a string outside the five known methods   *)
(* gets the error -32601 from either dispatcher, and the call runs no tool *)
(* handler, writes no file and makes no HTTP call.                         *)
C5_UnknownMethod ==
    (Dispatched /\ req.kind = "object" /\ req.method \notin KnownMethods \cup {Absent, Null})
        => /\ ~raised
           /\ IsError(resp, MethodNotFound)
           /\ log = <<>>

(* C6: tools/call with a name that is not a registered tool, or without a  *)
(* name, gets the error -32601 from either dispatcher and never raises.    *)
C6_UnknownTool ==
    (Dispatched /\ WellFormedRequest /\ req.method = "tools/call"
       /\ req.params = "object" /\ req.name \notin ToolNames /\ req.args # NonMap)
        => (~raised /\ IsError(resp, MethodNotFound))

(* C7: tools/call of generate_music_from_humming whose arguments have no   *)
(* style_prompt gets the error -32602 from either dispatcher.              *)
C7_HummingWithoutStylePrompt ==
    (Dispatched /\ WellFormedRequest /\ IsToolCall("generate_music_from_humming")
       /\ req.args # NonMap /\ req.argmap.style_prompt = Absent)
        => (~raised /\ IsError(resp, InvalidParams))

(* the name under which each module takes the input file path *)
InputPathKey(name) ==
    IF variant = "index"
    THEN (IF name = "wav_to_music_score" THEN "wav_path" ELSE "humming_path")
    ELSE (IF name = "wav_to_music_score" THEN "wav_file_path" ELSE "humming_file_path")

(* C8: tools/call of wav_to_music_score whose arguments lack the input     *)
(* file path (absent or empty) gets the error -32602 from either           *)
(* dispatcher, before any file is written or HTTP call made.               *)
C8_WavWithoutPath ==
    (Dispatched /\ WellFormedRequest /\ IsToolCall("wav_to_music_score") /\ req.args # NonMap
       /\ req.argmap[InputPathKey("wav_to_music_score")] \in {Absent, ""})
        => (~raised /\ IsError(resp, InvalidParams) /\ ~HasSideEffect(log))

(* C9: the WAV tool called with a path that does not exist returns a       *)
(* result (no error key) whose text begins with a failure marker, in       *)
(* api/mcp.py, api/index.py and music_toolkit_server.py.                   *)
C9_MissingWavFile ==
    /\ (Dispatched /\ WellFormedRequest /\ IsToolCall("wav_to_music_score") /\ req.args = "object"
          /\ Present(req.argmap) = {InputPathKey("wav_to_music_score")}
          /\ req.argmap[InputPathKey("wav_to_music_score")] = MissingPath)
         => (~raised /\ IsResult(resp) /\ StartsWith(ResultText, CrossMark))
    /\ (entry = "tool" /\ IsToolCall("wav_to_music_score") /\ req.argmap.wav_file_path = MissingPath)
         => (~raised /\ StartsWith(resp.return, CrossMark))

(* C10: tools/list returns exactly the two tools wav_to_music_score and    *)
(* generate_music_from_humming, the first requiring the input file path    *)
(* and the second the input file path and style_prompt, in either module.  *)
C10_ToolsList ==
    (Dispatched /\ WellFormedRequest /\ req.method = "tools/list")
        => /\ ~raised
           /\ IsResult(resp)
           /\ Len(resp.result.tools) = 2
           /\ resp.result.tools[1].name = "wav_to_music_score"
           /\ resp.result.tools[2].name = "generate_music_from_humming"
           /\ Range(resp.result.tools[1].inputSchema.required) = {InputPathKey("wav_to_music_score")}
           /\ Range(resp.result.tools[2].inputSchema.required)
                = {InputPathKey("generate_music_from_humming"), "style_prompt"}

(* C11: the dispatcher keeps no state between requests.  Whatever was      *)
(* served before (an initialize or none), a well-formed initialize,        *)
(* tools/list, resources/list or prompts/list gets a result that echoes    *)
(* its id and equals the first result that method ever gave in the         *)
(* session, and a well-formed call of the WAV tool runs the tool and gets  *)
(* a result although no initialize was served                              *)
C11_Stateless ==
    (Dispatched /\ WellFormedRequest) =>
        /\ req.method \in StaticMethods =>
              /\ IsResult(resp)
              /\ resp.id = req.id
              /\ session.first[req.method] = <<resp.result>>
        /\ ( /\ IsToolCall("wav_to_music_score")
             /\ req.args = "object"
             /\ Present(req.argmap) = {InputPathKey("wav_to_music_score")}
             /\ Truthy(req.argmap[InputPathKey("wav_to_music_score")]) ) =>
              /\ IsResult(resp)
              /\ Uses(log, "tool", "wav_to_music_score")

(* a tools/list answered after other requests, initialize not among them,  *)
(* and a tool call served in a session without initialize                  *)
C11_Witness ==
    /\ Dispatched
    /\ ~session.initialized
    /\ session.first["tools/list"] # <<>>
    /\ session.first["prompts/list"] # <<>>
    /\ IsToolCall("wav_to_music_score")
    /\ IsResult(resp)
    /\ Uses(log, "tool", "wav_to_music_score")

ToolRan(name) == entry \in {"call", "tool"} /\ req.name = name /\ Uses(log, "tool", name)
ToolReturned == IF variant = "server" THEN "return" \in DOMAIN resp ELSE IsResult(resp)
ToolText == IF variant = "server" THEN resp.return ELSE ResultText
Posted(api, outcomes) ==
    \E i \in 1..Len(log) : log[i].ev = "post" /\ log[i].target = api /\ log[i].out \in outcomes
Posts(api) == Cardinality({i \in 1..Len(log) : log[i].ev = "post" /\ log[i].target = api})
Wrote(ext) == \E i \in 1..Len(log) : log[i].ev = "write" /\ log[i].target = ext /\ log[i].out = "ok"

(* C13: when the WAV tool renders and the scoring API fails (exception,    *)
(* status other than 200, or a 200 body without an svg field) the tool     *)
(* still returns a result whose text reports the generated MusicXML and    *)
(* says that the rendering failed                                          *)
C13_ScoringFailureFolded ==
    (ToolRan("wav_to_music_score") /\ Posted("verovio", ScoreOutcomes \ {"ok_svg"})) =>
        /\ ToolReturned
        /\ IF variant = "index"
           THEN /\ "musicxml" \in Range(ToolText)
                /\ Range(ToolText) \cap {"(SVG error)", "(SVG rendering failed)"} # {}
           ELSE /\ "MusicXML file" \in Range(ToolText)
                /\ "SVG rendering failed" \in Range(ToolText)

(* C14: when the generation API answers the humming tool with a status     *)
(* other than 200, the text of the tool's result is an error string that   *)
(* carries both the status and the response body, and no audio file is     *)
(* written                                                                 *)
C14_GenerationNon200 ==
    (ToolRan("generate_music_from_humming") /\ Posted("musicgen", {"non200"})) =>
        /\ ToolReturned
        /\ "status" \in Range(ToolText)
        /\ "body" \in Range(ToolText)
        /\ ~ \E i \in 1..Len(log) : log[i].ev = "write" /\ log[i].target = "wav"

Failed(ev, target) ==
    \E i \in 1..Len(log) :
        /\ log[i].ev = ev /\ log[i].target = target
        /\ log[i].out \in {"false", "raise", "exception", "non200", "ok_nosvg", "fails"}
(* the input check, the generation call, the creation of the directory or  *)
(* the writing of the audio file failed                                    *)
GenerationStepFailed ==
    \/ \E i \in 1..Len(log) : log[i].ev = "exists" /\ log[i].out = "false"
    \/ Failed("post", "musicgen")
    \/ Failed("mkdir", "output")
    \/ Failed("write", "wav")
(* the score of the generated audio was asked for and could not be made *)
ScoreStepFailed ==
    \/ Failed("write", "musicxml")
    \/ Failed("basic_pitch", "mid")
    \/ variant = "server" /\ ~libs.music21 /\ Wrote("wav") /\ Truthy(req.argmap.generate_score)
RenderStepFailed == Failed("post", "verovio")

C17_NoRetry ==
    entry # "none" =>
        /\ Posts("musicgen") <= 1
        /\ Posts("verovio") <= 1
        /\ \A i \in 1..Len(log) : log[i].ev = "post" => log[i].target \in {"musicgen", "verovio"}

(* a humming call that reached both services, the scoring API failing *)
C17_Witness ==
    /\ ToolRan("generate_music_from_humming")
    /\ Posts("musicgen") = 1
    /\ Posted("verovio", {"exception"})
    /\ Posts("verovio") = 1

(* ---- the output directory ---- *)
HasWritten(p) == caller[p].pc \in {"written", "returned"} /\ caller[p].path # ""
SameSecond(p, q) == caller[p].ts = caller[q].ts /\ caller[p].ext = caller[q].ext

(* C18: two tool calls that read the clock in the same second derive the   *)
(* same name generated_<timestamp>.<ext>: both report the same path, and   *)
(* the write of the later one always goes through and replaces the content *)
(* the earlier one wrote, whether the calls overlap or follow each other   *)
C18_SameSecondCollision ==
    /\ [](\A p, q \in Callers :
            (p # q /\ HasWritten(p) /\ HasWritten(q) /\ SameSecond(p, q)) =>
                /\ caller[p].path = caller[q].path
                /\ outdir[caller[p].path] \in {p, q})
    /\ [][\A p \in Callers :
            (caller[p].pc = "stamped" /\ caller'[p].pc = "written") =>
                /\ outdir'[caller[p].path] = p
                /\ \A q \in Callers \ {p} :
                      (HasWritten(q) /\ SameSecond(p, q)) =>
                          /\ outdir[caller[q].path] = q
                          /\ outdir'[caller[q].path] = p]_vars

(* both calls have returned the same path, one after the other in the same *)
(* second, and the file holds what the second call wrote                   *)
C18_Witness ==
    /\ caller[1].pc = "returned"
    /\ caller[2].pc = "returned"
    /\ caller[1].path # ""
    /\ caller[1].path = caller[2].path
    /\ outdir[caller[1].path] = 2

(* ---- the results of the methods without parameters ---- *)
Described(list) ==
    /\ DOMAIN list = 1..Len(list)
    /\ \A i \in 1..Len(list) : {"name", "description"} \subseteq DOMAIN list[i]
ListKey(method) ==
    CASE method = "tools/list" -> "tools"
      [] method = "resources/list" -> "resources"
      [] method = "prompts/list" -> "prompts"

(* C19: a well-formed initialize, tools/list, resources/list or            *)
(* prompts/list with empty params gets a result and no error; the result   *)
(* of initialize has serverInfo with a name and a version, the result of a *)
(* list method has the key tools, resources or prompts, holding a list     *)
(* whose entries all have a name and a description                         *)
C19_Discovery ==
    (Dispatched /\ WellFormedRequest /\ req.params = "object" /\ req.method \in StaticMethods) =>
        /\ IsResult(resp)
        /\ IF req.method = "initialize"
           THEN /\ "serverInfo" \in DOMAIN resp.result
                /\ {"name", "version"} \subseteq DOMAIN resp.result.serverInfo
           ELSE /\ ListKey(req.method) \in DOMAIN resp.result
                /\ Described(resp.result[ListKey(req.method)])

(* prompts/list of api/mcp.py: a result with one described prompt *)
C19_Witness ==
    /\ Dispatched
    /\ variant = "mcp"
    /\ WellFormedRequest
    /\ req.params = "object"
    /\ req.method = "prompts/list"
    /\ IsResult(resp)
    /\ Len(resp.result.prompts) = 1

(* ---- the WAV tool ---- *)
(* render_svg as the tool sees it: the default is true *)
RenderAsked == req.argmap.render_svg \in {Absent, "true"}
MusicXmlProduced == IF variant = "index" THEN "musicxml" \in Range(ToolText) ELSE Wrote("musicxml")

(* C20: the WAV tool posts to the scoring API exactly when render_svg is   *)
(* set and a MusicXML document was produced; with render_svg false it      *)
(* sends no HTTP request at all; when the scoring API answers 200 with an  *)
(* svg field the result embeds that SVG, base64-encoded inside an HTML     *)
(* fragment in api/mcp.py and music_toolkit_server.py                      *)
C20_ScoringCalledIffRendering ==
    ToolRan("wav_to_music_score") =>
        /\ Posts("verovio") >= 1 <=> (RenderAsked /\ MusicXmlProduced)
        /\ ~RenderAsked => ~ \E i \in 1..Len(log) : log[i].ev = "post"
        /\ Posts("musicgen") = 0
        /\ Posted("verovio", {"ok_svg"}) =>
              IF variant = "index"
              THEN \E i \in 1..(Len(ToolText) - 1) : ToolText[i] = "svg" /\ ToolText[i + 1] = "<svg>"
              ELSE \E i \in 1..(Len(ToolText) - 2) :
                      /\ ToolText[i] = "<div>"
                      /\ ToolText[i + 1] = Base64("<svg>")
                      /\ ToolText[i + 2] = "</div>"

(* the WAV tool of api/mcp.py with render_svg set, the document written    *)
(* and the scoring API answering with an svg                               *)
C20_Witness ==
    /\ variant = "mcp"
    /\ ToolRan("wav_to_music_score")
    /\ RenderAsked
    /\ Wrote("musicxml")
    /\ Posted("verovio", {"ok_svg"})
    /\ Base64("<svg>") \in Range(ToolText)

(* ---- the humming tool's score ---- *)
(* generate_score as the tool sees it: the default is true in api/index.py *)
(* and false in the other two modules                                      *)
ScoreAsked ==
    \/ req.argmap.generate_score = "true"
    \/ req.argmap.generate_score = Absent /\ variant = "index"
GenerationSucceeded == IF variant = "index" THEN Posted("musicgen", {"ok_json"}) ELSE Wrote("wav")
ScoreInText == IF variant = "index" THEN "musicxml" \in Range(ToolText) ELSE "Music score generated" \in Range(ToolText)
ScoreAttempted == \E i \in 1..Len(log) : log[i].ev = "write" /\ log[i].target = "musicxml"

ListedTools == IF variant = "index" THEN IndexTools ELSE McpTools
SchemaOf(name) == (CHOOSE i \in 1..Len(ListedTools) : ListedTools[i].name = name)
Declared(name) == ListedTools[SchemaOf(name)].inputSchema.properties
RequiredOf(name) == Range(ListedTools[SchemaOf(name)].inputSchema.required)

(* C22: a tools/call for a known tool whose arguments hold every required  *)
(* parameter and also keys the schema does not declare is not rejected:    *)
(* the tool runs and a result is returned                                  *)
C22_ExtraArgumentsAccepted ==
    ( /\ Dispatched
      /\ WellFormedRequest
      /\ req.method = "tools/call" /\ req.params = "object" /\ req.name \in ToolNames
      /\ req.args = "object"
      /\ \A k \in RequiredOf(req.name) : Truthy(req.argmap[k])
      /\ Present(req.argmap) \ Declared(req.name) # {} ) =>
        /\ IsResult(resp)
        /\ Uses(log, "tool", req.name)

(* ---- the WAV tool on an existing file, the directory and basic_pitch working ---- *)
WavToolOnExistingFile ==
    /\ ToolRan("wav_to_music_score")
    /\ req.argmap[InputPathKey("wav_to_music_score")] = ExistingPath
    /\ ~Failed("mkdir", "output") /\ ~Failed("write", "musicxml") /\ ~Failed("basic_pitch", "mid")

C24_MissingPathNoSideEffect ==
    \A name \in ToolNames :
        (ToolRan(name) /\ req.argmap[InputPathKey(name)] = MissingPath) => ~HasSideEffect(log)

(* C25: with basic_pitch available, the MIDI file a call of                *)
(* wav_to_musicxml converts is the one made from its own audio, and the    *)
(* file basic_pitch has written for a call is still there until the call   *)
(* has read it, whatever other calls did before or do meanwhile            *)
C25_OwnMidiConverted ==
    \A p \in Callers :
        /\ caller[p].pc = "converted" => caller[p].midi = p
        /\ caller[p].pc = "picked" => caller[p].path = MidiPath(p)
        /\ caller[p].pc \in {"predicted", "picked"} => MidiPath(p) \in DOMAIN outdir

(* ---- the tool registry of an entry point ---- *)
ListedNames == {ListedTools[i].name : i \in 1..Len(ListedTools)}

OtherDispatcher(r) ==
    IF variant = "index" THEN Mcp_handle_mcp_request(r, BenignEnv).value
    ELSE Index_handle_mcp_request(r, BenignEnv).value
OutsideToolCalls ==
    /\ Dispatched
    /\ req.kind = "object"
    /\ req.id.t = "int"
    /\ req.method \notin {Absent, Null, "tools/call"}
    /\ req.params \in {Absent, "object"}

C28_HummingText ==
    (variant \in {"mcp", "server"} /\ ToolRan("generate_music_from_humming")) =>
        /\ ToolReturned
        /\ Head(ToolText) = CrossMark <=> GenerationStepFailed
        /\ Head(ToolText) \in {CrossMark, CheckMark}
        /\ Wrote("wav") =>
              /\ Head(ToolText) = CheckMark
              /\ \E i \in 1..Len(log) :
                    /\ log[i] = EvWrite("wav", "ok", log[i].ts)
                    /\ SubSeq(ToolText, 3, 8) = <<FolderMark, "Generated music file", OutputPath(log[i].ts, "wav"),
                                                  NoteMark, "Style", req.argmap.style_prompt>>

(* the audio file written, the score asked for and its writing failing:    *)
(* the text still begins with the success marker                           *)
C28_Witness ==
    /\ variant = "server"
    /\ ToolRan("generate_music_from_humming")
    /\ Wrote("wav")
    /\ ScoreStepFailed
    /\ Head(ToolText) = CheckMark
    /\ "jazz" \in Range(ToolText)

====
